---- MODULE Spec2Model ----
(***************************************************************************)
(* Brand record management: the Brand table (models.py), the repository    *)
(* queries (repository.py) and the service operations (service.py), run by *)
(* concurrent requests, each in its own database session (database.py).    *)
(*                                                                         *)
(* Strings that the code searches (name, display_name, q) are sequences of *)
(* one-character strings; other strings are atomic.  An Optional[T] value  *)
(* is <<>> for None and <<v>> for a value v.                               *)
(***************************************************************************)
EXTENDS Integers, Sequences, FiniteSets, TLC

VARIABLES brands, sess, now, nextId

vars == <<brands, sess, now, nextId>>

\* ------------------------------------------------------------- bounds
MaxBrands == 2
MaxTime == 1

Sessions == {"s1", "s2"}

\* ------------------------------------------------------------- settings
max_page_size == 1000

\* ------------------------------------------------------------- schemas
\* le of ListBrandParams.pagesize
pagesize_le == 100

\* ------------------------------------------------------------- values
None == <<>>
Some(x) == <<x>>
Val(o) == o[1]

\* Python truthiness of an Optional[str] / Optional[int]
TruthyStr(o) == o # None /\ Val(o) # <<>>
TruthyInt(o) == o # None /\ Val(o) # 0

Lower(c) == CASE c = "A" -> "a" [] c = "B" -> "b" [] c = "C" -> "c" [] OTHER -> c

\* code point order of the characters used
Code(c) == CASE c = "A" -> 65 [] c = "B" -> 66 [] c = "C" -> 67 [] c = "_" -> 95
             [] c = "a" -> 97 [] c = "b" -> 98 [] c = "c" -> 99 [] c = "x" -> 120
             [] OTHER -> 0

Ids == 1..MaxBrands

\* the Brand mapped class: one row of table "brands"
Brand(id, external_brand_id, name, display_name, description, logo_url, is_active, created_at, updated_at) ==
    [id |-> id, external_brand_id |-> external_brand_id, name |-> name,
     display_name |-> display_name, description |-> description, logo_url |-> logo_url,
     is_active |-> is_active, created_at |-> created_at, updated_at |-> updated_at]

NoRow == Brand(0, None, <<>>, None, None, None, FALSE, 0, None)

\* CreateBrandRequest / UpdateBrandRequest: the same six fields, every one Optional
\* in the update request; name and is_active always supplied in the create request
Request(external_brand_id, name, display_name, description, logo_url, is_active) ==
    [external_brand_id |-> external_brand_id, name |-> name, display_name |-> display_name,
     description |-> description, logo_url |-> logo_url, is_active |-> is_active]

NoRequest == Request(None, None, None, None, None, None)

\* the requests the clients send
CreateBrandRequest ==
    { Request(None, Some(<<"a", "b">>), None, None, None, Some(TRUE)),
      Request(None, Some(<<"a", "b">>), Some(<<>>), None, None, Some(TRUE)),
      Request(Some("E1"), Some(<<"A", "b">>), Some(<<"c">>), Some("d1"), Some("u1"), Some(FALSE)) }

UpdateBrandRequest ==
    { Request(None, Some(<<"A", "b">>), Some(<<"x">>), None, None, None),
      Request(None, None, None, Some("d2"), None, Some(FALSE)) }

\* ------------------------------------------------------------- repository.py
\* select(Brand).where(Brand.name == name) ... .first(): exact, case-sensitive
\* match; comparing with None is IS NULL, which no row satisfies
get_by_name_async(table, name) ==
    LET found == {r \in table : name # None /\ r.name = Val(name)}
    IN  IF found = {} THEN None ELSE Some(CHOOSE r \in found : TRUE)

\* select(Brand).where(Brand.id == brand_id) ... .first()
get_by_id_async(table, brand_id) ==
    LET found == {r \in table : r.id = brand_id}
    IN  IF found = {} THEN None ELSE Some(CHOOSE r \in found : TRUE)

\* SQL  s ILIKE p : % matches any run of characters, _ any one character,
\* every other character itself, letters compared without case
RECURSIVE ILike(_, _)
ILike(s, p) ==
    IF p = <<>> THEN s = <<>>
    ELSE IF Head(p) = "%" THEN ILike(s, Tail(p)) \/ (s # <<>> /\ ILike(Tail(s), p))
    ELSE IF s = <<>> THEN FALSE
    ELSE IF Head(p) = "_" THEN ILike(Tail(s), Tail(p))
    ELSE Lower(Head(s)) = Lower(Head(p)) /\ ILike(Tail(s), Tail(p))

\* the where-clauses shared by get_list_async and count_list_async; a NULL
\* display_name makes its ILIKE unknown, which or_ treats as no match
Filtered(table, query_str, is_active) ==
    {r \in table :
        /\ TruthyStr(query_str) =>
             LET pat == <<"%">> \o Val(query_str) \o <<"%">>
             IN  \/ ILike(r.name, pat)
                 \/ (r.display_name # None /\ ILike(Val(r.display_name), pat))
        /\ is_active # None => r.is_active = Val(is_active)}

Columns == {"id", "external_brand_id", "name", "display_name", "description",
            "logo_url", "is_active", "created_at", "updated_at"}

\* attributes of the mapped class that are no columns: hasattr is true of them
\* and .asc()/.desc() on them raises AttributeError
OtherAttrs == {"metadata", "registry", "__tablename__"}

HasAttr(field_name) == Len(field_name) = 1 /\ field_name[1] \in Columns \cup OtherAttrs

\* an ordering entry is its text split after a leading "-"
StartsWithMinus(order) == order # <<>> /\ Head(order) = "-"
FieldOf(order) == IF StartsWithMinus(order) THEN Tail(order) ELSE order

\* the order_by clauses of get_list_async: <<column, descending>> per accepted
\* entry, then created_at descending
RECURSIVE OrderBy(_)
OrderBy(ordering) ==
    IF ordering = <<>> THEN << <<"created_at", TRUE>> >>
    ELSE LET order == Head(ordering)
         IN  (IF HasAttr(FieldOf(order))
              THEN << <<FieldOf(order)[1], StartsWithMinus(order)>> >>
              ELSE <<>>) \o OrderBy(Tail(ordering))

OrderingRaises(ordering) ==
    \E i \in 1..Len(ordering) :
        HasAttr(FieldOf(ordering[i])) /\ FieldOf(ordering[i])[1] \in OtherAttrs

StrRank(x) == CASE x = "E1" -> 1 [] x = "E2" -> 2 [] x = "d1" -> 1 [] x = "d2" -> 2
                [] x = "u1" -> 1 [] x = "u2" -> 2 [] OTHER -> 0

Codes(str) == [i \in 1..Len(str) |-> Code(str[i])]

\* a column's value as an Optional sequence of integers, ordered as the store
\* orders the column (text by code point; false before true)
SortKey(r, col) ==
    CASE col = "id" -> Some(<<r.id>>)
      [] col = "name" -> Some(Codes(r.name))
      [] col = "display_name" ->
            IF r.display_name = None THEN None ELSE Some(Codes(Val(r.display_name)))
      [] col = "is_active" -> Some(<<IF r.is_active THEN 1 ELSE 0>>)
      [] col = "created_at" -> Some(<<r.created_at>>)
      [] col = "updated_at" -> r.updated_at
      [] col = "external_brand_id" ->
            IF r.external_brand_id = None THEN None ELSE Some(<<StrRank(Val(r.external_brand_id))>>)
      [] col = "description" ->
            IF r.description = None THEN None ELSE Some(<<StrRank(Val(r.description))>>)
      [] OTHER ->
            IF r.logo_url = None THEN None ELSE Some(<<StrRank(Val(r.logo_url))>>)

RECURSIVE LexLess(_, _)
LexLess(a, b) ==
    IF b = <<>> THEN FALSE
    ELSE IF a = <<>> THEN TRUE
    ELSE IF Head(a) # Head(b) THEN Head(a) < Head(b)
    ELSE LexLess(Tail(a), Tail(b))

\* ascending order of a column; NULL sorts after every value
KeyLess(k1, k2) ==
    IF k1 = None THEN FALSE
    ELSE IF k2 = None THEN TRUE
    ELSE LexLess(Val(k1), Val(k2))

\* r1 comes strictly before r2 under the order_by clauses
RECURSIVE Before(_, _, _)
Before(r1, r2, clauses) ==
    IF clauses = <<>> THEN FALSE
    ELSE LET col == Head(clauses)[1]
             desc == Head(clauses)[2]
             k1 == SortKey(r1, col)
             k2 == SortKey(r2, col)
         IN  IF k1 = k2 THEN Before(r1, r2, Tail(clauses))
             ELSE IF desc THEN KeyLess(k2, k1) ELSE KeyLess(k1, k2)

Orderings(rows) ==
    {f \in [1..Cardinality(rows) -> rows] : \A i, j \in DOMAIN f : i # j => f[i] # f[j]}

\* a query without its order_by clauses: the filtered rows in any order
get_list_async_Unordered(table, skip, limit, query_str, is_active, ordering) ==
    LET rows == Filtered(table, query_str, is_active)
        n == Cardinality(rows)
        from == IF skip > 0 THEN skip + 1 ELSE 1
        last == IF limit > 0 /\ from + limit - 1 < n THEN from + limit - 1 ELSE n
    IN  {SubSeq(f, from, last) : f \in Orderings(rows)}

\* the sequences the store may answer get_list_async with: the filtered rows in
\* an order that respects order_by (rows equal on every clause in either order),
\* cut by offset and limit when these are positive
get_list_async(table, skip, limit, query_str, is_active, ordering) ==
    LET rows == Filtered(table, query_str, is_active)
        clauses == OrderBy(ordering)
        n == Cardinality(rows)
        from == IF skip > 0 THEN skip + 1 ELSE 1
        last == IF limit > 0 /\ from + limit - 1 < n THEN from + limit - 1 ELSE n
    IN  {SubSeq(f, from, last) :
            f \in {g \in Orderings(rows) :
                     \A i, j \in DOMAIN g : i < j => ~Before(g[j], g[i], clauses)}}

\* a count that leaves out the is_active clause
count_list_async_IgnoresActive(table, query_str, is_active) ==
    Cardinality(Filtered(table, query_str, None))

\* select(func.count(Brand.id)) with the same where-clauses
count_list_async(table, query_str, is_active) ==
    Cardinality(Filtered(table, query_str, is_active))

\* ------------------------------------------------------------- service.py
\* a skip that counts the requested page as already passed
get_paging_params_SkipsPage(page, pagesize) ==
    IF ~TruthyInt(page) \/ ~TruthyInt(pagesize) THEN <<-1, -1>>
    ELSE LET size == IF Val(pagesize) > max_page_size THEN max_page_size ELSE Val(pagesize)
         IN  <<Val(page) * size, size>>

get_paging_params(page, pagesize) ==
    IF ~TruthyInt(page) \/ ~TruthyInt(pagesize) THEN <<-1, -1>>
    ELSE LET size == IF Val(pagesize) > max_page_size THEN max_page_size ELSE Val(pagesize)
         IN  <<(Val(page) - 1) * size, size>>

\* ListBrandParams as received by get_list_brands
ListParams(page, pagesize, q, is_active, ordering) ==
    [page |-> page, pagesize |-> pagesize, q |-> q, is_active |-> is_active, ordering |-> ordering]

NoParams == ListParams(None, None, None, None, <<>>)

ListBrandParams ==
    { ListParams(Some(1), Some(10), q, None, << <<"-", "created_at">> >>) :
        q \in {None, Some(<<"A", "B">>), Some(<<"c">>), Some(<<"_">>)} }
    \cup { ListParams(Some(1), Some(10), None, Some(TRUE), << <<"name">> >>),
           ListParams(Some(1), Some(10), None, None, << <<"name">> >>),
           ListParams(Some(1), Some(10), None, None, << <<"created_at">>, <<"-", "name">> >>),
           ListParams(Some(1), Some(10), None, None, << <<"metadata">> >>),
           ListParams(Some(1), Some(1), None, None, << <<"-", "created_at">> >>),
           ListParams(Some(1), Some(2), None, Some(FALSE), << <<"-", "created_at">> >>),
           ListParams(Some(2), Some(1), Some(<<"b">>), None, << <<"-", "bogus">>, <<"-", "name">> >>),
           ListParams(Some(1), Some(1001), None, None, << <<"-", "created_at">> >>) }

\* the Query constraints of ListBrandParams, which the framework checks before
\* get_brands is called: page ge=1, pagesize ge=1 le=100
QueryValid(params) ==
    /\ params.page # None => Val(params.page) >= 1
    /\ params.pagesize # None =>
          Val(params.pagesize) >= 1 /\ Val(params.pagesize) <= pagesize_le

\* the staged, unflushed-to-commit work of a session: at most one statement
NoPending == [kind |-> "none", row |-> NoRow]

\* messages are sequences of text pieces
Ok == <<>>
AlreadyExists(name) == <<"Brand with name '">> \o name \o <<"' already exists">>
MustBeUnique == <<"Brand name must be unique">>
IdNotFound(brand_id) == <<"Brand with ID '", ToString(brand_id), "' ", "not found">>
FailedTo(what) == <<"Failed to ", what>>
Unprocessable == <<"Input should be less than or equal to ", ToString(pagesize_le)>>

IdleSession ==
    [pc |-> "idle", op |-> "none", req |-> NoRequest, target |-> 0, params |-> NoParams,
     checked |-> FALSE, pending |-> NoPending, exc |-> "none", msg |-> Ok, resp |-> None,
     data |-> <<>>, total |-> 0, open |-> FALSE, commits |-> 0, rollbacks |-> 0]

\* session = AsyncSessionLocal(): the session get_async_db yields to a request
AsyncSessionLocal == [IdleSession EXCEPT !.open = TRUE]

\* _to_brand_response copies the nine fields of the row
_to_brand_response(brand) ==
    Brand(brand.id, brand.external_brand_id, brand.name, brand.display_name,
          brand.description, brand.logo_url, brand.is_active, brand.created_at,
          brand.updated_at)

\* ------------------------------------------------------------- the store
\* Statements run at READ COMMITTED: a session reads the committed table, and
\* a write is staged in the session until db.commit().

\* rows another session has written (UPDATE or DELETE) and not yet committed
LockedByOther(s, id) ==
    \E t \in Sessions \ {s} :
        sess[t].pending.kind \in {"update", "delete"} /\ sess[t].pending.row.id = id

\* another session holds an uncommitted row with this name
NameStagedByOther(s, name) ==
    \E t \in Sessions \ {s} :
        sess[t].pending.kind \in {"insert", "update"} /\ sess[t].pending.row.name = name

\* Brand.name declared without unique=True
UniqueViolation_NoConstraint(id, name) == FALSE

\* unique=True on Brand.name: writing name for row id finds a committed row of
\* another id with that name
UniqueViolation(id, name) ==
    \E r \in brands : r.name = name /\ r.id # id

\* the statement has to wait for another session's commit or rollback
MustWait(s, id, name, writesName) ==
    \/ LockedByOther(s, id)
    \/ writesName /\ NameStagedByOther(s, name)
    \/ writesName /\ \E r \in brands : r.name = name /\ r.id # id /\ LockedByOther(s, r.id)

\* a delete that keeps the row as an inactive tombstone
Committed_SoftDelete(table, pending) ==
    CASE pending.kind = "insert" -> table \cup {pending.row}
      [] pending.kind = "update" -> {r \in table : r.id # pending.row.id} \cup {pending.row}
      [] pending.kind = "delete" ->
            {r \in table : r.id # pending.row.id} \cup {[pending.row EXCEPT !.is_active = FALSE]}
      [] OTHER -> table

\* db.commit(): the staged statement takes effect on the committed table
Committed(table, pending) ==
    CASE pending.kind = "insert" -> table \cup {pending.row}
      [] pending.kind = "update" -> {r \in table : r.id # pending.row.id} \cup {pending.row}
      [] pending.kind = "delete" -> {r \in table : r.id # pending.row.id}
      [] OTHER -> table

Init ==
    /\ brands = {}
    /\ sess = [s \in Sessions |-> IdleSession]
    /\ now = 0
    /\ nextId = 1

\* the clock read by datetime.utcnow() advances
Tick ==
    /\ now < MaxTime
    /\ now' = now + 1
    /\ UNCHANGED <<brands, sess, nextId>>

\* delete_brand raising without db.rollback()
ServiceRollbacks_NotInDelete(op) == IF op \in {"create", "update"} THEN 1 ELSE 0

\* the db.rollback() calls of the except clause a service method leaves by:
\* one in every clause of create_brand, update_brand and delete_brand, none in
\* get_brand_by_id and get_list_brands
ServiceRollbacks(op) == IF op \in {"create", "update", "delete"} THEN 1 ELSE 0

\* a request ends with an exception: the except clause has run, nothing is
\* staged, and the caller is left with the exception's class and message
Raise(op, exc, msg) ==
    [AsyncSessionLocal EXCEPT !.pc = "done", !.op = op, !.exc = exc, !.msg = msg,
                              !.rollbacks = ServiceRollbacks(op)]

\* BrandRepository.create_async: the row built from the request
create_async(request, id, current_time) ==
    Brand(id,
          request.external_brand_id,
          Val(request.name),
          IF TruthyStr(request.display_name) THEN request.display_name ELSE request.name,
          request.description,
          request.logo_url,
          IF request.is_active = None THEN TRUE ELSE Val(request.is_active),
          current_time,
          Some(current_time))

\* update_async assigning description without the "is not None" guard
update_async_AssignsDescription(brand, request, current_time) ==
    Brand(brand.id,
          IF request.external_brand_id # None THEN request.external_brand_id ELSE brand.external_brand_id,
          IF request.name # None THEN Val(request.name) ELSE brand.name,
          IF request.display_name # None THEN request.display_name ELSE brand.display_name,
          request.description,
          IF request.logo_url # None THEN request.logo_url ELSE brand.logo_url,
          IF request.is_active # None THEN Val(request.is_active) ELSE brand.is_active,
          brand.created_at,
          Some(current_time))

\* BrandRepository.update_async: the fields of the request that are not None
\* are assigned, and updated_at
update_async(brand, request, current_time) ==
    Brand(brand.id,
          IF request.external_brand_id # None THEN request.external_brand_id ELSE brand.external_brand_id,
          IF request.name # None THEN Val(request.name) ELSE brand.name,
          IF request.display_name # None THEN request.display_name ELSE brand.display_name,
          IF request.description # None THEN request.description ELSE brand.description,
          IF request.logo_url # None THEN request.logo_url ELSE brand.logo_url,
          IF request.is_active # None THEN Val(request.is_active) ELSE brand.is_active,
          brand.created_at,
          Some(current_time))

\* create_brand without its pre-check
CreateDuplicate_Never(existing_brand) == FALSE

\* create_brand: "if existing_brand"
CreateDuplicate(existing_brand) == existing_brand # None

\* update_brand checking the name of every request
UpdateNeedsCheck_Always(request) == TRUE

\* update_brand: "if request.name", the condition of its duplicate-name check
UpdateNeedsCheck(request) == TruthyStr(request.name)

\* update_brand looking for the target before it compares the name
UpdateDuplicate_TargetFirst(existing_brand, brand_id) ==
    /\ get_by_id_async(brands, brand_id) # None
    /\ existing_brand # None /\ Val(existing_brand).id # brand_id

\* update_brand taking every brand of the name for another brand
UpdateDuplicate_AnyId(existing_brand, brand_id) == existing_brand # None

\* update_brand comparing the ids the wrong way round
UpdateDuplicate_SameId(existing_brand, brand_id) ==
    existing_brand # None /\ Val(existing_brand).id = brand_id

\* update_brand: "if existing_brand and existing_brand.id != brand_id"
UpdateDuplicate(existing_brand, brand_id) ==
    existing_brand # None /\ Val(existing_brand).id # brand_id

\* delete_brand ignoring the repository's answer
DeleteRaisesNotFound_Never(success) == FALSE

\* delete_brand: "if not success"
DeleteRaisesNotFound(success) == ~success

\* no except IntegrityError clause: the error falls to except Exception
IntegrityErrorHandler_Generic(op) ==
    Raise(op, "ServiceException",
          FailedTo(IF op = "create" THEN "create brand" ELSE "update brand"))

\* except IntegrityError of create_brand and update_brand: rollback, then
\* ValidationException("Brand name must be unique")
IntegrityErrorHandler(op) == Raise(op, "ValidationException", MustBeUnique)

\* the store's answer to a flushed INSERT or UPDATE that writes name
FlushRaisesIntegrityError(id, name, writesName) ==
    writesName /\ UniqueViolation(id, name)

\* create_brand, up to the duplicate-name check
CreateCheck(s, request) ==
    /\ sess[s].pc = "idle"
    /\ LET existing_brand == get_by_name_async(brands, request.name)
       IN  IF CreateDuplicate(existing_brand)
           THEN sess' = [sess EXCEPT ![s] =
                    Raise("create", "ValidationException", AlreadyExists(Val(request.name)))]
           ELSE /\ nextId + Cardinality({t \in Sessions : sess[t].pc = "create_checked"}) <= MaxBrands
                /\ sess' = [sess EXCEPT ![s] =
                      [AsyncSessionLocal EXCEPT !.pc = "create_checked", !.op = "create",
                                          !.req = request, !.checked = TRUE]]
    /\ UNCHANGED <<brands, now, nextId>>

\* create_brand: repository.create_async builds the row, db.add, db.flush
CreateFlush(s) ==
    /\ sess[s].pc = "create_checked"
    /\ LET brand == create_async(sess[s].req, nextId, now)
       IN  /\ ~MustWait(s, brand.id, brand.name, TRUE)
           /\ IF FlushRaisesIntegrityError(brand.id, brand.name, TRUE)
              THEN sess' = [sess EXCEPT ![s] = IntegrityErrorHandler("create")]
              ELSE sess' = [sess EXCEPT ![s] =
                      [@ EXCEPT !.pc = "flushed", !.target = brand.id,
                                !.pending = [kind |-> "insert", row |-> brand]]]
    /\ nextId' = nextId + 1
    /\ UNCHANGED <<brands, now>>

\* update_brand, up to the duplicate-name check
UpdateCheck(s, brand_id, request) ==
    /\ sess[s].pc = "idle"
    /\ IF /\ UpdateNeedsCheck(request)
          /\ UpdateDuplicate(get_by_name_async(brands, request.name), brand_id)
       THEN sess' = [sess EXCEPT ![s] =
                Raise("update", "ValidationException", AlreadyExists(Val(request.name)))]
       ELSE sess' = [sess EXCEPT ![s] =
                [AsyncSessionLocal EXCEPT !.pc = "update_checked", !.op = "update",
                                    !.req = request, !.target = brand_id,
                                    !.checked = UpdateNeedsCheck(request)]]
    /\ UNCHANGED <<brands, now, nextId>>

\* update_brand: repository.update_async reads the row, assigns, db.flush
UpdateFlush(s) ==
    /\ sess[s].pc = "update_checked"
    /\ LET found == get_by_id_async(brands, sess[s].target)
       IN  IF found = None
           THEN sess' = [sess EXCEPT ![s] =
                    Raise("update", "ValidationException", IdNotFound(sess[s].target))]
           ELSE LET brand == update_async(Val(found), sess[s].req, now)
                    writesName == brand.name # Val(found).name
                IN  /\ ~MustWait(s, brand.id, brand.name, writesName)
                    /\ IF FlushRaisesIntegrityError(brand.id, brand.name, writesName)
                       THEN sess' = [sess EXCEPT ![s] = IntegrityErrorHandler("update")]
                       ELSE sess' = [sess EXCEPT ![s] =
                               [@ EXCEPT !.pc = "flushed",
                                         !.pending = [kind |-> "update", row |-> brand]]]
    /\ UNCHANGED <<brands, now, nextId>>

\* delete_brand: repository.delete_async reads the row, db.delete, db.flush
DeleteFlush(s, brand_id) ==
    /\ sess[s].pc = "idle"
    /\ LET found == get_by_id_async(brands, brand_id)
       IN  IF DeleteRaisesNotFound(found # None)
           THEN sess' = [sess EXCEPT ![s] =
                    Raise("delete", "ValidationException", IdNotFound(brand_id))]
           ELSE /\ found # None => ~MustWait(s, brand_id, Val(found).name, FALSE)
                /\ sess' = [sess EXCEPT ![s] =
                      [AsyncSessionLocal EXCEPT !.pc = "flushed", !.op = "delete", !.target = brand_id,
                                          !.pending = IF found = None THEN NoPending
                                                      ELSE [kind |-> "delete", row |-> Val(found)]]]
    /\ UNCHANGED <<brands, now, nextId>>

\* await db.commit() of create_brand, update_brand or delete_brand; the
\* response is _to_brand_response of the object the session holds
Commit(s) ==
    /\ sess[s].pc = "flushed"
    /\ brands' = Committed(brands, sess[s].pending)
    /\ sess' = [sess EXCEPT ![s] =
          [AsyncSessionLocal EXCEPT !.pc = "done", !.op = sess[s].op, !.commits = 1]]
    /\ UNCHANGED <<now, nextId>>

\* the error text the store or the driver gives a failed statement or commit
StoreErrors == {"connection lost", "deadlock detected"}

\* an except Exception clause that passes the error on as a ValidationException
\* carrying the store's text
ExceptException_PassesErrorOn(op, e) == Raise(op, "ValidationException", <<e>>)

\* except Exception of create_brand, update_brand, delete_brand and
\* get_list_brands: the error e is logged, the session rolled back, and
\* ServiceException raised with the operation's fixed message
ExceptException(op, e) ==
    Raise(op, "ServiceException",
          FailedTo(CASE op = "create" -> "create brand"
                     [] op = "update" -> "update brand"
                     [] op = "delete" -> "delete brand"
                     [] OTHER -> "retrieve brands"))

\* a statement or the commit fails for a reason of the store or the connection
DbError(s) ==
    /\ sess[s].pc \in {"create_checked", "update_checked", "flushed", "list_fetched"}
    /\ \E e \in StoreErrors : sess' = [sess EXCEPT ![s] = ExceptException(sess[s].op, e)]
    /\ UNCHANGED <<brands, now, nextId>>

\* get_brand_by_id: the session's state when the call has returned or raised
get_brand_by_id(table, brand_id) ==
    LET brand == get_by_id_async(table, brand_id)
    IN  IF brand = None
        THEN Raise("get", "ValidationException", IdNotFound(brand_id))
        ELSE [AsyncSessionLocal EXCEPT !.pc = "done", !.op = "get",
                                 !.resp = Some(_to_brand_response(Val(brand)))]

GetById(s, brand_id) ==
    /\ sess[s].pc = "idle"
    /\ sess' = [sess EXCEPT ![s] = get_brand_by_id(brands, brand_id)]
    /\ UNCHANGED <<brands, now, nextId>>

\* GET /brands: the query parameters are validated; then get_list_brands runs
\* the page query
ListFetch(s, params) ==
    /\ sess[s].pc = "idle"
    /\ LET paging == get_paging_params(params.page, params.pagesize)
       IN  IF ~QueryValid(params)
           THEN sess' = [sess EXCEPT ![s] =
                    [Raise("list", "RequestValidationError", Unprocessable)
                        EXCEPT !.params = params]]
           ELSE IF OrderingRaises(params.ordering)
           THEN sess' = [sess EXCEPT ![s] =
                    [ExceptException("list", "AttributeError") EXCEPT !.params = params]]
           ELSE \E rows \in get_list_async(brands, paging[1], paging[2], params.q,
                                           params.is_active, params.ordering) :
                   sess' = [sess EXCEPT ![s] =
                       [AsyncSessionLocal EXCEPT !.pc = "list_fetched", !.op = "list",
                                           !.params = params, !.data = rows]]
    /\ UNCHANGED <<brands, now, nextId>>

\* get_list_brands: the count query, then the response of projections
ListCount(s) ==
    /\ sess[s].pc = "list_fetched"
    /\ sess' = [sess EXCEPT ![s] =
          [@ EXCEPT !.pc = "done",
                    !.total = count_list_async(brands, sess[s].params.q, sess[s].params.is_active),
                    !.data = [i \in DOMAIN sess[s].data |-> _to_brand_response(sess[s].data[i])]]]
    /\ UNCHANGED <<brands, now, nextId>>

\* get_async_db closing the session only when the request raised nothing
get_async_db_ClosesOnSuccessOnly(se) ==
    IF se.exc = "none" THEN IdleSession ELSE AsyncSessionLocal

\* get_async_db after its yield: rollback when the request raised, and in the
\* finally clause session.close()
get_async_db(se) == IdleSession

\* the response is sent and the dependency get_async_db is left
Finish(s) ==
    /\ sess[s].pc = "done"
    /\ sess' = [sess EXCEPT ![s] = get_async_db(sess[s])]
    /\ UNCHANGED <<brands, now, nextId>>

\* ------------------------------------------------------------- specifications
\* Spec: the mutating requests (POST, PUT, DELETE /brands), two at a time
Next ==
    \/ Tick
    \/ \E s \in Sessions : \E request \in CreateBrandRequest : CreateCheck(s, request)
    \/ \E s \in Sessions : CreateFlush(s)
    \/ \E s \in Sessions : \E brand_id \in Ids : \E request \in UpdateBrandRequest :
          UpdateCheck(s, brand_id, request)
    \/ \E s \in Sessions : UpdateFlush(s)
    \/ \E s \in Sessions : \E brand_id \in Ids : DeleteFlush(s, brand_id)
    \/ \E s \in Sessions : Commit(s)
    \/ \E s \in Sessions : DbError(s)
    \/ \E s \in Sessions : Finish(s)

Spec == Init /\ [][Next]_vars

\* SpecRead: the reading requests (GET /brands, GET /brands/{id}) of one
\* session, beside another session that creates and deletes brands
Writer == "s1"
Reader == "s2"

NextRead ==
    \/ Tick
    \/ \E request \in CreateBrandRequest : CreateCheck(Writer, request)
    \/ CreateFlush(Writer)
    \/ \E brand_id \in Ids : DeleteFlush(Writer, brand_id)
    \/ Commit(Writer)
    \/ Finish(Writer)
    \/ \E brand_id \in Ids : GetById(Reader, brand_id)
    \/ \E params \in ListBrandParams : ListFetch(Reader, params)
    \/ ListCount(Reader)
    \/ DbError(Reader)
    \/ Finish(Reader)

SpecRead == Init /\ [][NextRead]_vars

\* SpecPut: PUT /brands/{id} and its status, for brands whose name is the text
\* "not found"
NotFoundText == <<"n", "o", "t", " ", "f", "o", "u", "n", "d">>

PutCreateRequest ==
    { Request(None, Some(NotFoundText), None, None, None, Some(TRUE)),
      Request(None, Some(<<"a", "b">>), None, None, None, Some(TRUE)) }

PutUpdateRequest ==
    { Request(None, Some(NotFoundText), None, None, None, None),
      Request(None, Some(<<"a", "b">>), None, Some("d2"), None, None) }

NextPut ==
    \/ \E s \in Sessions : \E request \in PutCreateRequest : CreateCheck(s, request)
    \/ \E s \in Sessions : CreateFlush(s)
    \/ \E s \in Sessions : \E brand_id \in Ids : \E request \in PutUpdateRequest :
          UpdateCheck(s, brand_id, request)
    \/ \E s \in Sessions : UpdateFlush(s)
    \/ \E s \in Sessions : Commit(s)
    \/ \E s \in Sessions : Finish(s)

SpecPut == Init /\ [][NextPut]_vars

\* ------------------------------------------------------------- routes
\* the status an exception class carries: ServiceException 500,
\* ValidationException 400; the framework's validation error 422
status_code(exc) ==
    CASE exc = "ServiceException" -> 500
      [] exc = "ValidationException" -> 400
      [] exc = "RequestValidationError" -> 422
      [] OTHER -> 200

\* "not found" in error_msg: the text occurs in the message, in one of its
\* literal pieces or as a run of its characters
NotFoundIn(msg) ==
    \/ \E i \in DOMAIN msg : msg[i] = "not found"
    \/ \E i \in 1..(Len(msg) - Len(NotFoundText) + 1) :
          \A k \in DOMAIN NotFoundText : msg[i + k - 1] = NotFoundText[k]

\* the status PUT /brands/{brand_id} answers a finished update_brand with
update_brand_status(se) ==
    CASE se.exc = "none" -> 200
      [] se.exc = "ValidationException" -> IF NotFoundIn(se.msg) THEN 404 ELSE 400
      [] OTHER -> status_code(se.exc)

\* ------------------------------------------------------------- outcomes
\* DuplicateName: ValidationException from the pre-check or from the store's
\* uniqueness violation
IsDuplicateName(se) ==
    /\ se.pc = "done"
    /\ se.exc = "ValidationException"
    /\ \/ se.msg = MustBeUnique
       \/ /\ Len(se.msg) >= 2
          /\ se.msg = AlreadyExists(SubSeq(se.msg, 2, Len(se.msg) - 1))

\* NotFound: ValidationException carrying the "not found" message
IsNotFound(se) ==
    /\ se.pc = "done"
    /\ se.exc = "ValidationException"
    /\ \E id \in Ids : se.msg = IdNotFound(id)

IsSuccess(se) == se.pc = "done" /\ se.exc = "none"

RowsNamed(table, name) == {r \in table : r.name = name}

\* ------------------------------------------------------------- claims

\* C1: in every reachable state of the store, under any interleaving of
\* create, update and delete requests, no two Brand rows have the same name
\* (exact, case-sensitive comparison), nor the same id.
C1_UniqueNames ==
    \A r1, r2 \in brands : (r1.name = r2.name \/ r1.id = r2.id) => r1 = r2

\* two rows are stored, their names differing in case only, after a request
\* lost a race for a name
C1_Witness ==
    /\ Cardinality(brands) = 2
    /\ \E r1, r2 \in brands : r1.name = <<"a", "b">> /\ r2.name = <<"A", "b">>
    /\ \E s \in Sessions : sess[s].msg = MustBeUnique /\ sess[s].op = "update"

\* C2: two create requests with the same name, one after the other: the first
\* (name not stored, no other request in flight) passes the pre-check, is
\* flushed and commits exactly its row; the second (name stored) fails at the
\* pre-check with DuplicateName (ValidationException), stages nothing, and the
\* store holds exactly one row of that name.
C2_SequentialCreates ==
    [][\A s \in Sessions :
         LET alone == \A t \in Sessions \ {s} : sess[t].pc \in {"idle", "done"}
         IN  /\ \A request \in CreateBrandRequest :
                  CreateCheck(s, request) =>
                     LET name == Val(request.name)
                     IN  IF RowsNamed(brands, name) = {}
                         THEN sess'[s].pc = "create_checked"
                         ELSE /\ IsDuplicateName(sess'[s])
                              /\ sess'[s].msg = AlreadyExists(name)
                              /\ sess'[s].pending = NoPending
                              /\ brands' = brands
                              /\ Cardinality(RowsNamed(brands', name)) = 1
             /\ (CreateFlush(s) /\ alone /\ RowsNamed(brands, Val(sess[s].req.name)) = {}) =>
                  /\ sess'[s].pc = "flushed"
                  /\ sess'[s].pending.kind = "insert"
                  /\ sess'[s].pending.row.name = Val(sess[s].req.name)
             /\ (Commit(s) /\ sess[s].op = "create") =>
                  /\ IsSuccess(sess'[s])
                  /\ brands' = brands \cup {sess[s].pending.row}
                  /\ Cardinality(RowsNamed(brands', Val(sess[s].req.name))) = 1
      ]_vars

\* a create was answered DuplicateName by the pre-check while one row of that
\* name, created before, is stored
C2_Witness ==
    \E s \in Sessions :
        /\ sess[s].pc = "done" /\ sess[s].op = "create"
        /\ sess[s].msg = AlreadyExists(<<"a", "b">>)
        /\ Cardinality(RowsNamed(brands, <<"a", "b">>)) = 1
        /\ nextId = 2

\* C3: when two create or update requests race so that both pass the
\* pre-check for one name, at most one of them holds the name uncommitted and
\* commits it; the other's flush meets the store's uniqueness violation, and
\* it is rolled back (nothing staged, store unchanged) and reports
\* DuplicateName (ValidationException), not ServiceException.
C3_RaceReportsDuplicateName ==
    [][/\ \A s \in Sessions :
            /\ (CreateFlush(s) /\ UniqueViolation(nextId, Val(sess[s].req.name))) =>
                  /\ IsDuplicateName(sess'[s])
                  /\ sess'[s].exc # "ServiceException"
                  /\ sess'[s].pending = NoPending
                  /\ brands' = brands
            /\ (/\ UpdateFlush(s)
                /\ sess[s].req.name # None
                /\ get_by_id_async(brands, sess[s].target) # None
                /\ Val(get_by_id_async(brands, sess[s].target)).name # Val(sess[s].req.name)
                /\ UniqueViolation(sess[s].target, Val(sess[s].req.name))) =>
                  /\ IsDuplicateName(sess'[s])
                  /\ sess'[s].exc # "ServiceException"
                  /\ sess'[s].pending = NoPending
                  /\ brands' = brands
       /\ \A s, t \in Sessions :
            (/\ s # t
             /\ sess'[s].pending.kind \in {"insert", "update"}
             /\ sess'[t].pending.kind \in {"insert", "update"}) =>
                sess'[s].pending.row.name # sess'[t].pending.row.name
      ]_vars

\* a create that had passed the pre-check lost the race: it was answered
\* DuplicateName by the store's constraint, and one row of the name is stored
C3_Witness ==
    \E s \in Sessions :
        /\ sess[s].pc = "done" /\ sess[s].op = "create"
        /\ sess[s].exc = "ValidationException" /\ sess[s].msg = MustBeUnique
        /\ Cardinality(RowsNamed(brands, <<"A", "b">>)) = 1

\* C4: update(id, request) whose name is the name of a stored brand of another
\* id is rejected at the pre-check with DuplicateName (ValidationException),
\* stages nothing and leaves every stored brand as it was.
C4_UpdateToTakenNameRejected ==
    [][\A s \in Sessions : \A brand_id \in Ids : \A request \in UpdateBrandRequest :
         (/\ UpdateCheck(s, brand_id, request)
          /\ request.name # None
          /\ \E r \in brands : r.name = Val(request.name) /\ r.id # brand_id) =>
             /\ IsDuplicateName(sess'[s])
             /\ sess'[s].msg = AlreadyExists(Val(request.name))
             /\ sess'[s].pending = NoPending
             /\ brands' = brands
      ]_vars

\* an update was answered DuplicateName by the pre-check while two brands are
\* stored, one of them holding the requested name
C4_Witness ==
    \E s \in Sessions :
        /\ sess[s].pc = "done" /\ sess[s].op = "update"
        /\ sess[s].msg = AlreadyExists(<<"A", "b">>)
        /\ Cardinality(brands) = 2
        /\ RowsNamed(brands, <<"A", "b">>) # {}

\* C5: update(id, request) with no name never runs the duplicate-name query
\* and is never answered DuplicateName, neither at the pre-check nor at the
\* flush, whatever names the stored brands have.
C5_UpdateWithoutNameNeverDuplicate ==
    [][\A s \in Sessions :
         /\ \A brand_id \in Ids : \A request \in UpdateBrandRequest :
              (UpdateCheck(s, brand_id, request) /\ request.name = None) =>
                 /\ sess'[s].pc = "update_checked"
                 /\ sess'[s].checked = FALSE
         /\ (UpdateFlush(s) /\ sess[s].req.name = None) =>
                 /\ ~IsDuplicateName(sess'[s])
                 /\ get_by_id_async(brands, sess[s].target) # None =>
                       sess'[s].pending.kind = "update"
      ]_vars

\* an update with no name is staged for a brand while another brand is stored
C5_Witness ==
    \E s \in Sessions :
        /\ sess[s].pc = "flushed" /\ sess[s].op = "update"
        /\ sess[s].req.name = None /\ sess[s].checked = FALSE
        /\ Cardinality(brands) = 2

\* C6: when an update commits, get_brand_by_id(id) returns the supplied value
\* for every field the request supplies, the value stored before for every
\* other field but updated_at (id and created_at included), and every other
\* brand is as it was.
C6_PartialUpdate ==
    [][\A s \in Sessions :
         (Commit(s) /\ sess[s].op = "update") =>
            LET id == sess[s].target
                req == sess[s].req
                old == Val(get_by_id_async(brands, id))
                got == get_brand_by_id(brands', id)
                new == Val(got.resp)
            IN  /\ IsSuccess(sess'[s])
                /\ IsSuccess(got)
                /\ new.id = id
                /\ new.external_brand_id =
                      IF req.external_brand_id # None THEN req.external_brand_id
                      ELSE old.external_brand_id
                /\ new.name = IF req.name # None THEN Val(req.name) ELSE old.name
                /\ new.display_name =
                      IF req.display_name # None THEN req.display_name ELSE old.display_name
                /\ new.description =
                      IF req.description # None THEN req.description ELSE old.description
                /\ new.logo_url = IF req.logo_url # None THEN req.logo_url ELSE old.logo_url
                /\ new.is_active =
                      IF req.is_active # None THEN Val(req.is_active) ELSE old.is_active
                /\ new.created_at = old.created_at
                /\ {r \in brands' : r.id # id} = {r \in brands : r.id # id}
      ]_vars

\* a brand created with defaults has been renamed by one update and described
\* by another: it shows fields of the create and of both updates
C6_Witness ==
    /\ \E s \in Sessions : IsSuccess(sess[s]) /\ sess[s].op = "update"
    /\ \E r \in brands :
          /\ r.name = <<"A", "b">> /\ r.display_name = Some(<<"x">>)
          /\ r.description = Some("d2") /\ r.is_active = FALSE
          /\ r.external_brand_id = None

\* C7: a brand's updated_at is null from its creation until its first
\* successful update, and every update sets it to the current time.
C7_UpdatedAtNullUntilUpdate ==
    [][\A s \in Sessions :
         /\ (CreateFlush(s) /\ sess'[s].pc = "flushed") =>
               sess'[s].pending.row.updated_at = None
         /\ (UpdateFlush(s) /\ sess'[s].pc = "flushed") =>
               sess'[s].pending.row.updated_at = Some(now)
      ]_vars

\* C8: delete(id) for an id that is not stored fails with NotFound, stages
\* nothing, and the store is as before: same row count, same rows.
C8_DeleteMissingIsNotFound ==
    [][\A s \in Sessions : \A brand_id \in Ids :
         (DeleteFlush(s, brand_id) /\ get_by_id_async(brands, brand_id) = None) =>
             /\ IsNotFound(sess'[s])
             /\ sess'[s].msg = IdNotFound(brand_id)
             /\ sess'[s].pending = NoPending
             /\ brands' = brands
             /\ Cardinality(brands') = Cardinality(brands)
      ]_vars

\* a delete was answered NotFound while a brand of another id is stored
C8_Witness ==
    \E s \in Sessions :
        /\ sess[s].op = "delete" /\ IsNotFound(sess[s])
        /\ sess[s].msg = IdNotFound(2)
        /\ Cardinality(brands) = 1

\* C9: delete(id) for a stored id stages the deletion of that row, and its
\* commit removes exactly that row: get_brand_by_id(id) is NotFound, the row
\* count is one less, every other row is as before and no row is altered.
C9_DeleteRemovesExactlyThatRow ==
    [][\A s \in Sessions :
         /\ \A brand_id \in Ids :
              (DeleteFlush(s, brand_id) /\ get_by_id_async(brands, brand_id) # None) =>
                 /\ sess'[s].pc = "flushed"
                 /\ sess'[s].pending =
                       [kind |-> "delete", row |-> Val(get_by_id_async(brands, brand_id))]
         /\ (Commit(s) /\ sess[s].op = "delete") =>
                 LET id == sess[s].target
                 IN  /\ IsSuccess(sess'[s])
                     /\ get_by_id_async(brands, id) # None
                     /\ brands' = brands \ {Val(get_by_id_async(brands, id))}
                     /\ Cardinality(brands') = Cardinality(brands) - 1
                     /\ IsNotFound(get_brand_by_id(brands', id))
      ]_vars

\* a delete has committed: of two brands created, one is left
C9_Witness ==
    \E s \in Sessions :
        /\ IsSuccess(sess[s]) /\ sess[s].op = "delete"
        /\ nextId = 3
        /\ Cardinality(brands) = 1
        /\ \A r \in brands : r.id = 2

\* sub occurs in str as a run of consecutive characters, letters compared
\* without case
Contains(str, sub) ==
    \E i \in 1..(Len(str) - Len(sub) + 1) :
        \A k \in 1..Len(sub) : Lower(str[i + k - 1]) = Lower(sub[k])

\* the brands of table that satisfy every supplied filter
Matching(table, q, is_active) ==
    {r \in table :
        /\ is_active # None => r.is_active = Val(is_active)
        /\ q # None =>
              \/ Contains(r.name, Val(q))
              \/ (r.display_name # None /\ Contains(Val(r.display_name), Val(q)))}

\* the page asked for covers every stored brand
WholeList(params, table) ==
    LET paging == get_paging_params(params.page, params.pagesize)
    IN  paging[1] <= 0 /\ (paging[2] <= 0 \/ paging[2] >= Cardinality(table))

\* C10: list returns exactly the brands that satisfy every supplied filter:
\* is_active equal to the given value when it is given, and q occurring as a
\* case-insensitive substring of name or of display_name when q is given; no
\* matching brand is left out and no other brand is returned.
C10_ListReturnsMatchingSet ==
    [][\A params \in ListBrandParams :
         (/\ ListFetch(Reader, params)
          /\ sess'[Reader].pc = "list_fetched"
          /\ WholeList(params, brands)) =>
             {sess'[Reader].data[i] : i \in DOMAIN sess'[Reader].data}
                = Matching(brands, params.q, params.is_active)
      ]_vars

\* C11: when list answers, its total is the number of brands that an
\* unpaginated list with the same q and is_active returns from the same table,
\* whatever the page, the pagesize and the ordering of either call.
C11_TotalIsUnpaginatedCount ==
    [][ListCount(Reader) =>
         \A p \in ListBrandParams :
            (/\ p.q = sess[Reader].params.q
             /\ p.is_active = sess[Reader].params.is_active
             /\ ~OrderingRaises(p.ordering)) =>
                \A f \in get_list_async(brands, -1, -1, p.q, p.is_active, p.ordering) :
                    sess'[Reader].total = Len(f)
      ]_vars

\* a list of page 2 with pagesize 1 has answered one brand and a total of two
C11_Witness ==
    /\ sess[Reader].pc = "done" /\ sess[Reader].op = "list"
    /\ sess[Reader].params.page = Some(2)
    /\ sess[Reader].total = 2
    /\ Len(sess[Reader].data) = 1

\* the sort keys an ordering asks for: each entry's field and direction, in the
\* order given, then created_at descending
SortKeys(ordering) ==
    [i \in 1..Len(ordering) |-> <<FieldOf(ordering[i])[1], StartsWithMinus(ordering[i])>>]
       \o << <<"created_at", TRUE>> >>

NamesColumns(ordering) ==
    \A i \in 1..Len(ordering) :
        Len(FieldOf(ordering[i])) = 1 /\ FieldOf(ordering[i])[1] \in Columns

\* r1 may stand before r2: they are equal on every key, or r1 is first in the
\* direction of the first key they differ on
InOrder(r1, r2, keys) ==
    \/ \A k \in DOMAIN keys : SortKey(r1, keys[k][1]) = SortKey(r2, keys[k][1])
    \/ \E k \in DOMAIN keys :
          /\ \A h \in 1..(k - 1) : SortKey(r1, keys[h][1]) = SortKey(r2, keys[h][1])
          /\ SortKey(r1, keys[k][1]) # SortKey(r2, keys[k][1])
          /\ IF keys[k][2] THEN KeyLess(SortKey(r2, keys[k][1]), SortKey(r1, keys[k][1]))
                           ELSE KeyLess(SortKey(r1, keys[k][1]), SortKey(r2, keys[k][1]))

\* C12: the sequence list fetches is ordered lexicographically by the ordering
\* fields in the order given, ascending, or descending for a field prefixed
\* with "-", and brands equal on all of them by created_at descending; with
\* ordering ["name"] the names ascend, created_at descending among equal names.
C12_ListIsOrdered ==
    [][\A params \in ListBrandParams :
         (/\ ListFetch(Reader, params)
          /\ sess'[Reader].pc = "list_fetched"
          /\ NamesColumns(params.ordering)) =>
             LET data == sess'[Reader].data
             IN  \A i, j \in DOMAIN data :
                    i < j =>
                      /\ InOrder(data[i], data[j], SortKeys(params.ordering))
                      /\ params.ordering = << <<"name">> >> =>
                            \/ LexLess(Codes(data[i].name), Codes(data[j].name))
                            \/ /\ data[i].name = data[j].name
                               /\ data[i].created_at >= data[j].created_at
      ]_vars

\* two brands created at the same time are listed by created_at, then by name
\* descending: "ab" before "Ab"
C12_Witness ==
    /\ sess[Reader].pc = "list_fetched"
    /\ sess[Reader].params.ordering = << <<"created_at">>, <<"-", "name">> >>
    /\ Len(sess[Reader].data) = 2
    /\ sess[Reader].data[1].created_at = sess[Reader].data[2].created_at
    /\ sess[Reader].data[1].name = <<"a", "b">>
    /\ sess[Reader].data[2].name = <<"A", "b">>

RemoveAt(seq, i) == SubSeq(seq, 1, i - 1) \o SubSeq(seq, i + 1, Len(seq))

\* the entry names no Brand field, with or without its "-" prefix
NamesNoField(order) == ~(Len(FieldOf(order)) = 1 /\ FieldOf(order)[1] \in Columns)

\* C13: an ordering entry that names no Brand field is silently ignored: list
\* succeeds, and the sequence it fetches is one the same call without that
\* entry fetches.
C13_UnknownOrderingIgnored ==
    [][\A params \in ListBrandParams : \A i \in 1..Len(params.ordering) :
         (/\ ListFetch(Reader, params)
          /\ QueryValid(params)
          /\ NamesNoField(params.ordering[i])) =>
             LET paging == get_paging_params(params.page, params.pagesize)
             IN  /\ sess'[Reader].pc = "list_fetched"
                 /\ sess'[Reader].exc = "none"
                 /\ sess'[Reader].data \in
                       get_list_async(brands, paging[1], paging[2], params.q,
                                      params.is_active, RemoveAt(params.ordering, i))
      ]_vars

\* positions first..last of a sequence, as far as it reaches
Slice(f, first, last) == SubSeq(f, first, IF last < Len(f) THEN last ELSE Len(f))

\* C14: list with page p >= 1 and pagesize s >= 1, s not above the maximum,
\* fetches the elements at positions (p-1)*s .. p*s-1 (counted from 0) of the
\* filtered, ordered sequence, in that order; with the default ordering and no
\* filter, page 1 holds the pagesize most recently created brands.
C14_PageIsSliceOfOrderedList ==
    [][\A params \in ListBrandParams :
         (/\ ListFetch(Reader, params)
          /\ QueryValid(params)
          /\ ~OrderingRaises(params.ordering)
          /\ params.page # None /\ params.pagesize # None
          /\ Val(params.page) >= 1 /\ Val(params.pagesize) >= 1
          /\ Val(params.pagesize) <= max_page_size) =>
             LET p == Val(params.page)
                 size == Val(params.pagesize)
                 data == sess'[Reader].data
             IN  /\ sess'[Reader].pc = "list_fetched"
                 /\ \E f \in get_list_async(brands, -1, -1, params.q, params.is_active,
                                            params.ordering) :
                       data = Slice(f, (p - 1) * size + 1, p * size)
                 /\ (/\ p = 1 /\ params.q = None /\ params.is_active = None
                     /\ params.ordering = << <<"-", "created_at">> >>) =>
                       /\ Len(data) = IF Cardinality(brands) < size
                                      THEN Cardinality(brands) ELSE size
                       /\ \A i \in DOMAIN data :
                             \A r \in brands :
                                (\A k \in DOMAIN data : data[k] # r) =>
                                    data[i].created_at >= r.created_at
      ]_vars

\* page 2 of pagesize 1, names descending, holds the second of two brands
C14_Witness ==
    /\ sess[Reader].pc = "list_fetched"
    /\ sess[Reader].params.page = Some(2)
    /\ sess[Reader].params.pagesize = Some(1)
    /\ Cardinality(brands) = 2
    /\ Len(sess[Reader].data) = 1
    /\ sess[Reader].data[1].name = <<"A", "b">>

\* C15: a list request whose pagesize is above the configured maximum is not
\* rejected: it is answered as the same request with pagesize equal to the
\* maximum is (skip and limit both from the clamped value), and the response
\* holds no more brands than the maximum.
C15_PagesizeAboveMaximumIsClamped ==
    [][\A params \in ListBrandParams :
         (/\ ListFetch(Reader, params)
          /\ params.page # None /\ params.pagesize # None
          /\ Val(params.page) >= 1
          /\ Val(params.pagesize) > max_page_size
          /\ ~OrderingRaises(params.ordering)) =>
             /\ sess'[Reader].pc = "list_fetched"
             /\ sess'[Reader].exc = "none"
             /\ sess'[Reader].data \in
                   get_list_async(brands, (Val(params.page) - 1) * max_page_size,
                                  max_page_size, params.q, params.is_active, params.ordering)
             /\ Len(sess'[Reader].data) <= max_page_size
      ]_vars

\* C16: in create, update and delete, a failure that is no domain error rolls
\* back the unit of work (nothing stays staged, the store is as it was) and is
\* reported as ServiceException with status 500 and the operation's fixed
\* message, which carries nothing of the store's error text.
C16_OtherFailureIsInternalFailure ==
    [][\A s \in Sessions :
         (DbError(s) /\ sess[s].op \in {"create", "update", "delete"}) =>
            /\ sess'[s].pc = "done"
            /\ sess'[s].exc = "ServiceException"
            /\ status_code(sess'[s].exc) = 500
            /\ sess'[s].msg = FailedTo(CASE sess[s].op = "create" -> "create brand"
                                         [] sess[s].op = "update" -> "update brand"
                                         [] OTHER -> "delete brand")
            /\ \A e \in StoreErrors : \A i \in DOMAIN sess'[s].msg : sess'[s].msg[i] # e
            /\ ~IsDuplicateName(sess'[s])
            /\ ~IsNotFound(sess'[s])
            /\ sess'[s].pending = NoPending
            /\ brands' = brands
      ]_vars

\* a delete failed at its commit: both brands ever created are still stored
C16_Witness ==
    \E s \in Sessions :
        /\ sess[s].pc = "done" /\ sess[s].op = "delete"
        /\ sess[s].exc = "ServiceException"
        /\ sess[s].msg = FailedTo("delete brand")
        /\ nextId = 3
        /\ Cardinality(brands) = 2

\* C17: a request acquires its session when it starts, holds it open until it
\* completes, and get_async_db closes it exactly then, whether the request
\* ended in success, in a domain error or in an unexpected failure: an open
\* session is closed by no other step, a closed one is never closed again,
\* and no session is open once its request is over.
C17_SessionClosedExactlyOnce ==
    [][\A s \in Sessions :
         /\ (sess[s].pc = "idle" /\ sess'[s].pc # "idle") =>
               ~sess[s].open /\ sess'[s].open
         /\ (sess[s].pc # "idle" /\ sess'[s].pc # "idle") => sess'[s].open
         /\ (sess[s].open /\ ~sess'[s].open) => Finish(s) /\ sess[s].pc = "done"
         /\ Finish(s) => sess[s].open /\ ~sess'[s].open /\ sess'[s].pc = "idle"
         /\ sess'[s].pc = "idle" => ~sess'[s].open
      ]_vars

\* two creates and a third request that failed or deleted have completed: no
\* request is running and every session is closed
C17_Witness ==
    /\ \A s \in Sessions : sess[s].pc = "idle" /\ ~sess[s].open
    /\ nextId = 3
    /\ Cardinality(brands) = 1

\* C18: PUT /brands/{id} answers 404 exactly when the target id is absent, and
\* 400 whenever the update is rejected for a duplicate name, whatever the
\* requested name is.
C18_PutStatus ==
    [][\A s \in Sessions :
         /\ \A brand_id \in Ids : \A request \in PutUpdateRequest :
              (UpdateCheck(s, brand_id, request) /\ sess'[s].pc = "done") =>
                 /\ IsDuplicateName(sess'[s]) => update_brand_status(sess'[s]) = 400
                 /\ update_brand_status(sess'[s]) = 404
                       <=> get_by_id_async(brands, brand_id) = None
         /\ (UpdateFlush(s) /\ sess'[s].pc = "done") =>
                 /\ IsDuplicateName(sess'[s]) => update_brand_status(sess'[s]) = 400
                 /\ update_brand_status(sess'[s]) = 404
                       <=> get_by_id_async(brands, sess[s].target) = None
      ]_vars

\* C19: the brand create builds has display_name equal to the request's
\* display_name whenever the request supplies one, the empty string included,
\* and equal to name only when display_name is omitted.
C19_DisplayNameAsSupplied ==
    [][\A s \in Sessions :
         (CreateFlush(s) /\ sess'[s].pc = "flushed") =>
            sess'[s].pending.row.display_name =
               IF sess[s].req.display_name # None THEN sess[s].req.display_name
               ELSE sess[s].req.name
      ]_vars

\* C20: update(id, request) whose name is the target brand's own current name
\* is not rejected as a duplicate: it passes the name check, is staged with
\* the name kept and the other supplied fields assigned, and its commit stores
\* that row.
C20_UpdateToOwnNameSucceeds ==
    [][\A s \in Sessions :
         /\ \A brand_id \in Ids : \A request \in UpdateBrandRequest :
              (/\ UpdateCheck(s, brand_id, request)
               /\ request.name # None
               /\ \E r \in brands : r.id = brand_id /\ r.name = Val(request.name)) =>
                  /\ sess'[s].pc = "update_checked"
                  /\ ~IsDuplicateName(sess'[s])
         /\ LET found == get_by_id_async(brands, sess[s].target)
                req == sess[s].req
            IN  (/\ sess[s].op = "update"
                 /\ req.name # None
                 /\ found # None
                 /\ Val(found).name = Val(req.name)) =>
                    /\ UpdateFlush(s) =>
                          /\ sess'[s].pc = "flushed"
                          /\ sess'[s].pending.kind = "update"
                          /\ sess'[s].pending.row.id = sess[s].target
                          /\ sess'[s].pending.row.name = Val(found).name
                          /\ req.display_name # None =>
                                sess'[s].pending.row.display_name = req.display_name
                          /\ req.description # None =>
                                sess'[s].pending.row.description = req.description
                          /\ req.is_active # None =>
                                sess'[s].pending.row.is_active = Val(req.is_active)
                    /\ Commit(s) =>
                          /\ IsSuccess(sess'[s])
                          /\ sess[s].pending.row \in brands'
                          /\ sess[s].pending.row.name = Val(found).name
      ]_vars

\* the brand created as "Ab" with description d1 was updated with its own name
\* and a new display_name: name and description kept, display_name replaced
C20_Witness ==
    /\ \E s \in Sessions : IsSuccess(sess[s]) /\ sess[s].op = "update"
    /\ \E r \in brands :
          /\ r.name = <<"A", "b">> /\ r.display_name = Some(<<"x">>)
          /\ r.description = Some("d1") /\ r.external_brand_id = Some("E1")

\* C21: each call of create, update or delete ends its unit of work exactly
\* once, when it returns or raises and not before: with the commit when it
\* returns successfully, with a rollback when it raises; a call that reports
\* an error has committed nothing, and no call ends with changes staged.
C21_UnitOfWorkEndsExactlyOnce ==
    [][/\ \A s \in Sessions :
            /\ sess'[s].pc # "done" => sess'[s].commits = 0 /\ sess'[s].rollbacks = 0
            /\ (/\ sess[s].pc # "done" /\ sess'[s].pc = "done"
                /\ sess'[s].op \in {"create", "update", "delete"}) =>
                  /\ sess'[s].commits + sess'[s].rollbacks = 1
                  /\ IsSuccess(sess'[s]) <=> sess'[s].commits = 1
                  /\ sess'[s].exc # "none" <=> sess'[s].rollbacks = 1
                  /\ sess'[s].pending = NoPending
                  /\ sess'[s].exc # "none" => brands' = brands
       /\ brands' # brands =>
            \E s \in Sessions : Commit(s) /\ IsSuccess(sess'[s]) /\ sess'[s].rollbacks = 0
      ]_vars

\* one call has returned after its commit while another, which lost the race
\* for the name, has raised after its rollback
C21_Witness ==
    \E s, t \in Sessions :
        /\ IsSuccess(sess[s]) /\ sess[s].op = "create"
        /\ sess[s].commits = 1 /\ sess[s].rollbacks = 0
        /\ sess[t].pc = "done" /\ sess[t].op = "create" /\ sess[t].msg = MustBeUnique
        /\ sess[t].commits = 0 /\ sess[t].rollbacks = 1
        /\ Cardinality(brands) = 1

\* C22: update(id, request) checks the name before the target: for an id that
\* is not stored and a name a stored brand holds it is rejected with
\* DuplicateName, not NotFound; with no name or a free name it passes the name
\* check, and NotFound is reported by the step after it, when the target is
\* not stored; in both cases nothing is staged and the store is unchanged.
C22_DuplicateCheckedBeforeExistence ==
    [][\A s \in Sessions :
         /\ \A brand_id \in Ids : \A request \in UpdateBrandRequest :
              (UpdateCheck(s, brand_id, request) /\ get_by_id_async(brands, brand_id) = None) =>
                 IF request.name # None /\ RowsNamed(brands, Val(request.name)) # {}
                 THEN /\ IsDuplicateName(sess'[s])
                      /\ ~IsNotFound(sess'[s])
                      /\ sess'[s].msg = AlreadyExists(Val(request.name))
                      /\ sess'[s].pending = NoPending
                      /\ brands' = brands
                 ELSE /\ sess'[s].pc = "update_checked"
                      /\ brands' = brands
         /\ (UpdateFlush(s) /\ get_by_id_async(brands, sess[s].target) = None) =>
                 /\ IsNotFound(sess'[s])
                 /\ sess'[s].msg = IdNotFound(sess[s].target)
                 /\ sess'[s].pending = NoPending
                 /\ brands' = brands
         /\ (sess'[s].op = "update" /\ ~IsNotFound(sess[s]) /\ IsNotFound(sess'[s])) =>
                 /\ sess[s].pc = "update_checked"
                 /\ get_by_id_async(brands, sess[s].target) = None
      ]_vars

\* the one brand ever created is "Ab" with id 1; an update of another id to
\* that name was answered DuplicateName
C22_Witness ==
    \E s \in Sessions :
        /\ sess[s].pc = "done" /\ sess[s].op = "update"
        /\ sess[s].msg = AlreadyExists(<<"A", "b">>)
        /\ nextId = 2
        /\ \E r \in brands : r.id = 1 /\ r.name = <<"A", "b">>
        /\ get_by_id_async(brands, 2) = None

====
